---- MODULE Spec2Model ----
(***************************************************************************)
(* mcphost-server: the tool-server registry built at startup               *)
(* (createMCPClients, runMCPHost), the namespaced tool catalog             *)
(* (mcpToolsToAnthropicTools), the prompt resolution loop (runPrompt) and  *)
(* the HTTP handlers that share the long-lived history modelMessages.      *)
(*                                                                         *)
(* Strings whose characters matter (server ids, tool names) are sequences  *)
(* of one-character strings, so that fmt.Sprintf("%s__%s") and             *)
(* strings.Split(name, "__") are computed character by character.          *)
(***************************************************************************)
EXTENDS Integers, Sequences, FiniteSets, TLC

\* ------------------------------------------------------------------ bounds

\* Most servers in one mcpServers configuration.
MaxServers == 2
\* Most tools one server advertises in its ListTools answer.
MaxTools == 2
\* Most tool calls the model requests over one prompt resolution.
MaxCalls == 2
\* Most model queries (rounds) of one prompt resolution.
MaxRounds == 3
\* Most spare slots (cap - len) of the array behind modelMessages at the start.
MaxSpare == 2
\* Most finished resolutions behind the history a /history request reads.
MaxRuns == 3

\* ------------------------------------------------------------------ strings

\* The separator of a namespaced tool name, "__" (root.go:163, part_000:272).
Sep == <<"_", "_">>

\* strings.Index(s, "__"): the first position where Sep starts, 0 when absent.
Index(s) ==
  LET hits == {i \in 1..(Len(s) - 1) : s[i] = Sep[1] /\ s[i + 1] = Sep[2]}
  IN IF hits = {} THEN 0 ELSE CHOOSE i \in hits : \A j \in hits : i <= j

\* strings.Split(s, "__"): cuts at each occurrence found left to right, the
\* search resuming after the occurrence; always at least one part.
RECURSIVE Split(_)
Split(s) ==
  LET m == Index(s)
  IN IF m = 0 THEN <<s>>
     ELSE <<SubSeq(s, 1, m - 1)>> \o Split(SubSeq(s, m + 2, Len(s)))

\* fmt.Sprintf("%s__%s", serverName, tool.Name)
namespacedName(serverName, toolName) == serverName \o Sep \o toolName

\* Server ids a configuration may use and local names a server may advertise.
ServerIds == {<<"a">>, <<"a", "_">>, <<"b">>}
LocalNames == {<<"t">>, <<"_", "t">>, <<"t", "_", "_", "u">>}

RECURSIVE SeqsUpTo(_, _)
SeqsUpTo(S, n) ==
  IF n = 0 THEN {<<>>}
  ELSE LET shorter == SeqsUpTo(S, n - 1)
       IN shorter \cup {Append(q, x) : q \in {r \in shorter : Len(r) = n - 1}, x \in S}

\* ------------------------------------------------------------------ state

\* The concurrent /prompt requests (net/http serves each on its own goroutine).
Sessions == {1, 2}

VARIABLES
  spc,              \* position of Server.Start/runMCPHost: "provider", "create", "list", "serving"
  config,           \* mcpConfig.MCPServers: the configured server ids
  todo,             \* servers the running range loop has not visited yet
  clients,          \* createMCPClients' local map (its keys)
  conn,             \* per server id: "none" (no process), "live", "closed"
  modelProvider,    \* "nil" or "set"
  modelMcpClients,  \* keys of the registry map; {} also stands for the nil map
  modelTools,       \* the catalog: namespaced names in append order
  toolOrigin,       \* history variable: the (server, local name) each catalog entry was built for
  createErr,        \* the error createMCPClients returned: "nil", "start", "init"
  listResult,       \* history variable: per server id, what ListTools returned: [status, tools]
  messageWindow,    \* the package variable messageWindow
  histResponse,     \* answer to the latest /history request: [status, body, panic]
  heap,             \* backing arrays of modelMessages, by array id
  hdr,              \* slice header of modelMessages: [arr, len, cap]
  pc,               \* per session: "idle", "run", "dispatch", "merge", "store", "responded"
  curPrompt,        \* runPrompt's prompt argument of the current (recursive) call
  messages,         \* promptHandler's local messages slice
  message,          \* the model's message of the current round
  idx,              \* tool calls of the current round already handled
  messageContent,   \* runPrompt's messageContent
  toolResults,      \* runPrompt's toolResults
  newHdr,           \* header value computed by append, not yet stored
  response,         \* HTTP response: [status, body]
  queries,          \* history variable: CreateMessage calls of the session
  invoked,          \* history variable: CallTool requests of the session, in order
  histAtStart,      \* history variable: modelMessages when the request arrived
  alone,            \* history variable: no other request was in flight during this one
  err,              \* the error runPrompt returns: "nil", "provider", "model"
  asked,            \* history variable: tool calls the model has requested in this resolution
  disp,             \* history variable: what became of each tool call of the current round
  roundStart        \* history variable: len(*messages) when the current round's message arrived

regVars == <<spc, config, todo, clients, conn, modelProvider, modelMcpClients,
             modelTools, toolOrigin, createErr, listResult>>
envVars == <<messageWindow, histResponse>>
histVars == <<heap, hdr>>
sessVars == <<pc, curPrompt, messages, message, idx, messageContent, toolResults,
              newHdr, response, queries, invoked, histAtStart, alone, err,
              asked, disp, roundStart>>
vars == <<regVars, histVars, sessVars, envVars>>

\* modelMessages as a Go slice value: the first hdr.len slots of its array.
modelMessages == SubSeq(heap[hdr.arr], 1, hdr.len)

NoMessage == [Content |-> <<>>, ToolCalls |-> <<>>]
NoHdr == [arr |-> 0, len |-> 0, cap |-> 0]
NoResponse == [status |-> 0, body |-> <<>>]

SessInit ==
  /\ pc = [s \in Sessions |-> "idle"]
  /\ curPrompt = [s \in Sessions |-> <<>>]
  /\ messages = [s \in Sessions |-> <<>>]
  /\ message = [s \in Sessions |-> NoMessage]
  /\ idx = [s \in Sessions |-> 0]
  /\ messageContent = [s \in Sessions |-> <<>>]
  /\ toolResults = [s \in Sessions |-> <<>>]
  /\ newHdr = [s \in Sessions |-> NoHdr]
  /\ response = [s \in Sessions |-> NoResponse]
  /\ queries = [s \in Sessions |-> 0]
  /\ invoked = [s \in Sessions |-> <<>>]
  /\ histAtStart = [s \in Sessions |-> <<>>]
  /\ alone = [s \in Sessions |-> TRUE]
  /\ err = [s \in Sessions |-> "nil"]
  /\ asked = [s \in Sessions |-> 0]
  /\ disp = [s \in Sessions |-> <<>>]
  /\ roundStart = [s \in Sessions |-> 0]

\* modelMessages is nil at process start (root.go:34).
HistInitNil ==
  /\ heap = [a \in {0} \cup Sessions |-> <<>>]
  /\ hdr = NoHdr

\* ------------------------------------------------------------------ environment

DigitVal(c) ==
  CASE c = "0" -> 0 [] c = "1" -> 1 [] c = "2" -> 2 [] c = "3" -> 3 [] c = "4" -> 4
    [] c = "5" -> 5 [] c = "6" -> 6 [] c = "7" -> 7 [] c = "8" -> 8 [] c = "9" -> 9

Digits == {"0", "1", "2", "3", "4", "5", "6", "7", "8", "9"}

RECURSIVE Decimal(_, _)
Decimal(ds, acc) ==
  IF ds = <<>> THEN acc ELSE Decimal(Tail(ds), acc * 10 + DigitVal(Head(ds)))

\* strconv.Atoi as LoadServerEnv uses it, the error dropped: an optional sign
\* and decimal digits give the number, anything else (the empty string of an
\* unset variable included) gives 0.
Atoi(t) ==
  LET signed == t # <<>> /\ t[1] \in {"+", "-"}
      ds == IF signed THEN Tail(t) ELSE t
  IN IF ds = <<>> \/ \E i \in 1..Len(ds) : ds[i] \notin Digits THEN 0
     ELSE IF signed /\ t[1] = "-" THEN 0 - Decimal(ds, 0)
     ELSE Decimal(ds, 0)

\* os.Getenv("MCP_MESSAGE_WINDOW") of an environment without the variable.
EnvUnset == <<>>

\* Values of MCP_MESSAGE_WINDOW: unset, not a number, and numbers.
EnvValues == {EnvUnset, <<"x">>, <<"-", "1">>, <<"0">>, <<"1">>, <<"2">>,
              <<"+", "3">>, <<"1", "0">>}

\* LoadServerEnv, part_000:39: messageWindow, _ = strconv.Atoi(os.Getenv(...)).
LoadServerEnv(value) == Atoi(value)

NoHistResponse == [status |-> 0, body |-> <<>>, panic |-> FALSE]
NoListing == [status |-> "none", tools |-> <<>>]

\* The process was started without MCP_MESSAGE_WINDOW; no /history request yet.
EnvInit ==
  /\ messageWindow = LoadServerEnv(EnvUnset)
  /\ histResponse = NoHistResponse

\* ------------------------------------------------------------------ dispatch

\* Mutant of Dispatch: a name with two parts is routed without the registry lookup.
Dispatch_anyServer(name) ==
  LET parts == Split(name)
  IN IF Len(parts) # 2
       THEN [routed |-> FALSE, why |-> "format", serverName |-> <<>>, toolName |-> <<>>]
     ELSE [routed |-> TRUE, why |-> "", serverName |-> parts[1], toolName |-> parts[2]]

\* runPrompt, root.go:163-177: split the tool call's name on "__" and look the
\* first part up in modelMcpClients. routed = FALSE is a `continue`.
Dispatch(name) ==
  LET parts == Split(name)
  IN IF Len(parts) # 2
       THEN [routed |-> FALSE, why |-> "format", serverName |-> <<>>, toolName |-> <<>>]
     ELSE IF parts[1] \notin modelMcpClients
       THEN [routed |-> FALSE, why |-> "server", serverName |-> parts[1], toolName |-> parts[2]]
     ELSE [routed |-> TRUE, why |-> "", serverName |-> parts[1], toolName |-> parts[2]]

\* ------------------------------------------------------------------ startup

\* mcpToolsToAnthropicTools: one catalog entry per advertised tool, in order.
mcpToolsToAnthropicTools(serverName, mcpTools) ==
  [i \in 1..Len(mcpTools) |-> namespacedName(serverName, mcpTools[i])]

\* Init of the startup specification: Server.Start is about to call runMCPHost
\* with a configuration that loadMCPConfig has read.
InitReg ==
  /\ spc = "provider"
  /\ config \in {c \in SUBSET ServerIds : Cardinality(c) <= MaxServers}
  /\ todo = {}
  /\ clients = {}
  /\ conn = [n \in ServerIds |-> "none"]
  /\ modelProvider = "nil"
  /\ modelMcpClients = {}
  /\ modelTools = <<>>
  /\ toolOrigin = <<>>
  /\ createErr = "nil"
  /\ listResult = [n \in ServerIds |-> NoListing]
  /\ EnvInit
  /\ HistInitNil
  /\ SessInit

\* runMCPHost, root.go:278-281: createProvider fails, runMCPHost returns early.
createProviderFails ==
  /\ spc = "provider"
  /\ spc' = "serving"
  /\ UNCHANGED <<config, todo, clients, conn, modelProvider, modelMcpClients,
                 modelTools, toolOrigin, createErr, histVars, sessVars, envVars, listResult>>

\* runMCPHost, root.go:278-294: the provider is created, createMCPClients starts.
createProviderOK ==
  /\ spc = "provider"
  /\ modelProvider' = "set"
  /\ spc' = "create"
  /\ todo' = config
  /\ UNCHANGED <<config, clients, conn, modelMcpClients, modelTools, toolOrigin,
                 createErr, histVars, sessVars, envVars, listResult>>

\* Mutant of closeAll: the rollback closes nothing.
closeAll_forgets(cs) == conn

\* Close() on every client registered so far in this batch.
closeAll(cs) == [n \in ServerIds |-> IF n \in cs THEN "closed" ELSE conn[n]]

\* createMCPClients returned (nil, err): runMCPHost stores the nil map, logs, and
\* its listing loop ranges over nothing.
createFailed(e) ==
  /\ createErr' = e
  /\ modelMcpClients' = {}
  /\ clients' = {}
  /\ todo' = {}
  /\ spc' = "list"

\* One iteration of createMCPClients' loop in which NewStdioMCPClient fails.
StartFails(name) ==
  /\ spc = "create"
  /\ name \in todo
  /\ conn' = closeAll(clients)
  /\ createFailed("start")
  /\ UNCHANGED <<config, modelProvider, modelTools, toolOrigin, histVars, sessVars, envVars, listResult>>

\* One iteration in which the process starts and Initialize fails.
InitializeFails(name) ==
  /\ spc = "create"
  /\ name \in todo
  /\ conn' = closeAll(clients \cup {name})
  /\ createFailed("init")
  /\ UNCHANGED <<config, modelProvider, modelTools, toolOrigin, histVars, sessVars, envVars, listResult>>

\* One iteration in which the process starts and the handshake succeeds.
RegisterOK(name) ==
  /\ spc = "create"
  /\ name \in todo
  /\ conn' = [conn EXCEPT ![name] = "live"]
  /\ clients' = clients \cup {name}
  /\ todo' = todo \ {name}
  /\ UNCHANGED <<spc, config, modelProvider, modelMcpClients, modelTools,
                 toolOrigin, createErr, histVars, sessVars, envVars, listResult>>

\* createMCPClients returns (clients, nil); runMCPHost stores the map.
createMCPClientsReturn ==
  /\ spc = "create"
  /\ todo = {}
  /\ modelMcpClients' = clients
  /\ todo' = clients
  /\ spc' = "list"
  /\ UNCHANGED <<config, clients, conn, modelProvider, modelTools, toolOrigin,
                 createErr, histVars, sessVars, envVars, listResult>>

\* runMCPHost, root.go:304-329: ListTools succeeds for one server.
ListToolsOK(serverName, tools) ==
  /\ spc = "list"
  /\ serverName \in todo
  /\ modelTools' = modelTools \o mcpToolsToAnthropicTools(serverName, tools)
  /\ toolOrigin' = toolOrigin \o [i \in 1..Len(tools) |-> <<serverName, tools[i]>>]
  /\ listResult' = [listResult EXCEPT ![serverName] = [status |-> "ok", tools |-> tools]]
  /\ todo' = todo \ {serverName}
  /\ UNCHANGED <<spc, config, clients, conn, modelProvider, modelMcpClients,
                 createErr, histVars, sessVars, envVars>>

\* Mutant of afterListError: the failure ends the listing loop.
afterListError_break(serverName) == {}

\* runMCPHost, root.go:309-318: the `continue` after a failed ListTools; the
\* loop goes on with the servers it has not visited.
afterListError(serverName) == todo \ {serverName}

\* runMCPHost, root.go:309-318: ListTools fails for one server; continue.
ListToolsFails(serverName) ==
  /\ spc = "list"
  /\ serverName \in todo
  /\ listResult' = [listResult EXCEPT ![serverName] = [status |-> "failed", tools |-> <<>>]]
  /\ todo' = afterListError(serverName)
  /\ UNCHANGED <<spc, config, clients, conn, modelProvider, modelMcpClients,
                 modelTools, toolOrigin, createErr, histVars, sessVars, envVars>>

\* runMCPHost returns; the HTTP server starts listening.
runMCPHostReturn ==
  /\ spc = "list"
  /\ todo = {}
  /\ spc' = "serving"
  /\ UNCHANGED <<config, todo, clients, conn, modelProvider, modelMcpClients,
                 modelTools, toolOrigin, createErr, histVars, sessVars, envVars, listResult>>

NextReg ==
  \/ createProviderFails
  \/ createProviderOK
  \/ \E name \in ServerIds : StartFails(name)
  \/ \E name \in ServerIds : InitializeFails(name)
  \/ \E name \in ServerIds : RegisterOK(name)
  \/ createMCPClientsReturn
  \/ \E name \in ServerIds, tools \in SeqsUpTo(LocalNames, MaxTools) : ListToolsOK(name, tools)
  \/ \E name \in ServerIds : ListToolsFails(name)
  \/ runMCPHostReturn

SpecReg == InitReg /\ [][NextReg]_vars

\* ------------------------------------------------------------------ turns and blocks

\* history.ContentBlock; unused fields hold their zero value.
Block(type, text, id, toolUseID, name, content) ==
  [Type |-> type, Text |-> text, ID |-> id, ToolUseID |-> toolUseID,
   Name |-> name, Content |-> content]

\* history.HistoryMessage
Turn(role, content) == [Role |-> role, Content |-> content]

\* The zero HistoryMessage, in array slots beyond len.
NoTurn == Turn("", <<>>)

\* root.go:99-105: the user Turn holding the prompt.
userPromptTurn(prompt) == Turn("user", <<Block("text", prompt, 0, 0, <<>>, <<>>)>>)

\* message.GetRole() of a message a provider returned.
GetRole == "assistant"

\* strings.TrimSpace on a sequence of characters.
RECURSIVE TrimLeft(_)
TrimLeft(t) == IF t # <<>> /\ Head(t) = " " THEN TrimLeft(Tail(t)) ELSE t
RECURSIVE TrimRight(_)
TrimRight(t) ==
  IF t # <<>> /\ t[Len(t)] = " " THEN TrimRight(SubSeq(t, 1, Len(t) - 1)) ELSE t
TrimSpace(t) == TrimRight(TrimLeft(t))

\* root.go:228-236: resultText += fmt.Sprintf("%v ", text) for each item of the
\* raw content that is a map with a "text" key.
RECURSIVE resultText(_)
resultText(content) ==
  IF content = <<>> THEN <<>>
  ELSE LET item == Head(content)
       IN (IF item.hasText THEN item.text \o <<" ">> ELSE <<>>) \o resultText(Tail(content))

\* root.go:196-200: fmt.Sprintf("Error calling tool %s: %v", toolName, err)
errMsg(toolName) == <<"E", "r", "r", " ">> \o toolName

\* root.go:146-152
toolUseBlock(toolCall) == Block("tool_use", <<>>, toolCall.ID, 0, toolCall.Name, <<>>)

\* root.go:204-211
errorResultBlock(toolCall, toolName) ==
  Block("tool_result", <<>>, 0, toolCall.ID, <<>>,
        <<[hasText |-> TRUE, text |-> errMsg(toolName)]>>)

\* root.go:221-238
resultBlock(toolCall, content) ==
  Block("tool_result", TrimSpace(resultText(content)), 0, toolCall.ID, <<>>, content)

\* ------------------------------------------------------------------ inputs

\* Prompts a request may carry; <<>> is the empty form value.
PromptOf(s) == IF s = 1 THEN <<"p", "1">> ELSE <<"p", "2">>

\* Free text of a model message; <<>> is GetContent() = "".
Texts == {<<>>, <<"h", "i">>}

\* Names a model may put in a tool call: a catalog name, a name without
\* separator, a name of a server that is not registered.
CallNames == {<<"a", "_", "_", "t">>, <<"t">>, <<"g", "_", "_", "t">>}

\* Ids of the tool calls of round r: the model gives each call its own id.
ToolCallID(r, i) == r * 10 + i

ToolCallsOf(r, most) ==
  {[i \in 1..Len(names) |-> [ID |-> ToolCallID(r, i), Name |-> names[i]]] :
     names \in SeqsUpTo(CallNames, most)}

\* Messages CreateMessage may return to session s in round r, with at most
\* `most` tool calls. The second session is a plain question answered in text.
Replies(s, r, most) ==
  IF s = 1
    THEN {[Content |-> t, ToolCalls |-> tcs] : t \in Texts, tcs \in ToolCallsOf(r, most)}
    ELSE {[Content |-> <<"o", "k">>, ToolCalls |-> <<>>]}

\* What CallTool may return: an error, a result whose Content is nil, a result
\* with content.
ToolContents ==
  {<<[hasText |-> FALSE, text |-> <<>>],
     [hasText |-> TRUE, text |-> <<" ", "y">>],
     [hasText |-> TRUE, text |-> <<"z">>]>>}
ToolOutcomes ==
  {[kind |-> "err", content |-> <<>>], [kind |-> "nil", content |-> <<>>]}
    \cup {[kind |-> "content", content |-> c] : c \in ToolContents}

\* ------------------------------------------------------------------ prompt resolution

\* promptHandler, part_000:54-60: an empty prompt is answered 400.
PromptRejected(s) ==
  /\ spc = "serving"
  /\ pc[s] = "idle"
  /\ messages' = [messages EXCEPT ![s] = <<>>]
  /\ response' = [response EXCEPT ![s] = [status |-> 400, body |-> <<>>]]
  /\ pc' = [pc EXCEPT ![s] = "responded"]
  /\ UNCHANGED <<regVars, envVars, histVars, curPrompt, message, idx, messageContent,
                 toolResults, newHdr, queries, invoked, histAtStart, alone, err,
                 asked, disp, roundStart>>

InFlight(s) == pc[s] \notin {"idle", "responded"}

\* promptHandler, part_000:54-62: a request with a prompt calls runPrompt.
promptHandler(s) ==
  /\ spc = "serving"
  /\ pc[s] = "idle"
  /\ messages' = [messages EXCEPT ![s] = <<>>]
  /\ curPrompt' = [curPrompt EXCEPT ![s] = PromptOf(s)]
  /\ pc' = [pc EXCEPT ![s] = "run"]
  /\ histAtStart' = [histAtStart EXCEPT ![s] = modelMessages]
  /\ alone' = [t \in Sessions |->
                 IF t = s THEN \A u \in Sessions \ {s} : ~InFlight(u)
                 ELSE IF InFlight(t) THEN FALSE ELSE alone[t]]
  /\ UNCHANGED <<regVars, envVars, histVars, message, idx, messageContent, toolResults,
                 newHdr, response, queries, invoked, err, asked, disp, roundStart>>

\* Mutant of withPrompt: a user text Turn is appended for the empty prompt too.
withPrompt_always(msgs, prompt) == Append(msgs, userPromptTurn(prompt))

\* root.go:95-107: *messages after the optional append of the prompt.
withPrompt(msgs, prompt) ==
  IF prompt # <<>> THEN Append(msgs, userPromptTurn(prompt)) ELSE msgs

\* root.go:130-140: messageContent before the tool call loop.
initialContent(m) ==
  IF m.Content # <<>> THEN <<Block("text", m.Content, 0, 0, <<>>, <<>>)>> ELSE <<>>

\* root.go:115-118: runPrompt returns early, the provider was never created.
runPromptNoProvider(s) ==
  /\ pc[s] = "run"
  /\ modelProvider = "nil"
  /\ messages' = [messages EXCEPT ![s] = withPrompt(@, curPrompt[s])]
  /\ err' = [err EXCEPT ![s] = "provider"]
  /\ pc' = [pc EXCEPT ![s] = "failed"]
  /\ UNCHANGED <<regVars, envVars, histVars, curPrompt, message, idx, messageContent,
                 toolResults, newHdr, response, queries, invoked, histAtStart,
                 alone, asked, disp, roundStart>>

\* Mutant of onModelError: the failed query is retried.
onModelError_retry(s) ==
  /\ err' = [err EXCEPT ![s] = "model"]
  /\ pc' = [pc EXCEPT ![s] = "run"]

\* Mutant of onModelError: the failed resolution goes on to the merge.
onModelError_merge(s) ==
  /\ err' = [err EXCEPT ![s] = "model"]
  /\ pc' = [pc EXCEPT ![s] = "merge"]

\* What runPrompt does when CreateMessage returns an error (root.go:126-128).
onModelError(s) ==
  /\ err' = [err EXCEPT ![s] = "model"]
  /\ pc' = [pc EXCEPT ![s] = "failed"]

\* root.go:95-128: CreateMessage returns an error.
runPromptModelError(s) ==
  /\ pc[s] = "run"
  /\ modelProvider = "set"
  /\ queries[s] < MaxRounds
  /\ messages' = [messages EXCEPT ![s] = withPrompt(@, curPrompt[s])]
  /\ queries' = [queries EXCEPT ![s] = @ + 1]
  /\ onModelError(s)
  /\ UNCHANGED <<regVars, envVars, histVars, curPrompt, message, idx, messageContent,
                 toolResults, newHdr, response, invoked, histAtStart, alone,
                 asked, disp, roundStart>>

\* root.go:95-140: CreateMessage returns a message; the tool call loop starts.
runPromptQuery(s) ==
  /\ pc[s] = "run"
  /\ modelProvider = "set"
  /\ queries[s] < MaxRounds
  /\ \E m \in Replies(s, queries[s] + 1, MaxCalls - asked[s]) :
       /\ message' = [message EXCEPT ![s] = m]
       /\ asked' = [asked EXCEPT ![s] = @ + Len(m.ToolCalls)]
       /\ messageContent' = [messageContent EXCEPT ![s] = initialContent(m)]
  /\ messages' = [messages EXCEPT ![s] = withPrompt(@, curPrompt[s])]
  /\ roundStart' = [roundStart EXCEPT ![s] = Len(withPrompt(messages[s], curPrompt[s]))]
  /\ queries' = [queries EXCEPT ![s] = @ + 1]
  /\ toolResults' = [toolResults EXCEPT ![s] = <<>>]
  /\ idx' = [idx EXCEPT ![s] = 0]
  /\ disp' = [disp EXCEPT ![s] = <<>>]
  /\ pc' = [pc EXCEPT ![s] = "dispatch"]
  /\ UNCHANGED <<regVars, envVars, histVars, curPrompt, newHdr, response, invoked,
                 histAtStart, alone, err>>

\* root.go:143-245, one iteration of the loop over message.GetToolCalls():
\* acc holds messageContent and toolResults, o is what CallTool returns if the
\* call gets that far. json.Marshal of the arguments map followed by
\* json.Unmarshal into a map cannot fail, so root.go:180-183 never continues.
handleToolCall(acc, toolCall, o) ==
  LET d == Dispatch(toolCall.Name)
      used == Append(acc.messageContent, toolUseBlock(toolCall))
  IN IF ~d.routed
       THEN [messageContent |-> used, toolResults |-> acc.toolResults]
     ELSE IF o.kind = "err"
       THEN [messageContent |-> Append(used, errorResultBlock(toolCall, d.toolName)),
             toolResults |-> acc.toolResults]
     ELSE IF o.kind = "nil"
       THEN [messageContent |-> used, toolResults |-> acc.toolResults]
     ELSE [messageContent |-> used,
           toolResults |-> Append(acc.toolResults, resultBlock(toolCall, o.content))]

\* What became of a tool call: "format", "server" (skipped), "err", "nil", "content".
disposition(toolCall, o) ==
  LET d == Dispatch(toolCall.Name) IN IF ~d.routed THEN d.why ELSE o.kind

\* Mutant of currentCall: the loop walks the tool calls from the last one.
currentCall_reversed(s) == message[s].ToolCalls[Len(message[s].ToolCalls) - idx[s]]

\* root.go:143: the element the range loop over message.GetToolCalls() is at.
currentCall(s) == message[s].ToolCalls[idx[s] + 1]

\* One iteration of the tool call loop.
DispatchCall(s) ==
  /\ pc[s] = "dispatch"
  /\ idx[s] < Len(message[s].ToolCalls)
  /\ LET toolCall == currentCall(s)
         d == Dispatch(toolCall.Name)
     IN \E o \in ToolOutcomes :
          LET r == handleToolCall([messageContent |-> messageContent[s],
                                   toolResults |-> toolResults[s]], toolCall, o)
          IN /\ messageContent' = [messageContent EXCEPT ![s] = r.messageContent]
             /\ toolResults' = [toolResults EXCEPT ![s] = r.toolResults]
             /\ disp' = [disp EXCEPT ![s] = Append(@, disposition(toolCall, o))]
             /\ invoked' = [invoked EXCEPT ![s] =
                              IF d.routed
                                THEN Append(@, [serverName |-> d.serverName,
                                                toolName |-> d.toolName,
                                                ID |-> toolCall.ID,
                                                result |-> o])
                                ELSE @]
  /\ idx' = [idx EXCEPT ![s] = @ + 1]
  /\ UNCHANGED <<regVars, envVars, histVars, pc, curPrompt, messages, message, newHdr,
                 response, queries, histAtStart, alone, err, asked, roundStart>>

\* root.go:247-256: the Turns a finished round appends to *messages.
roundTurns(mc, tr) ==
  <<Turn(GetRole, mc)>> \o (IF Len(tr) > 0 THEN <<Turn("user", tr)>> ELSE <<>>)

\* Mutant of afterRound: recurse after every round.
afterRound_always(tr) == "run"

\* root.go:252-261: after the appends, recurse with an empty prompt if there
\* are tool results, else go on to the merge.
afterRound(tr) == IF Len(tr) > 0 THEN "run" ELSE "merge"

\* root.go:247-259: the loop is over.
FinishRound(s) ==
  /\ pc[s] = "dispatch"
  /\ idx[s] = Len(message[s].ToolCalls)
  /\ messages' = [messages EXCEPT ![s] = @ \o roundTurns(messageContent[s], toolResults[s])]
  /\ curPrompt' = [curPrompt EXCEPT ![s] = <<>>]
  /\ pc' = [pc EXCEPT ![s] = afterRound(toolResults[s])]
  /\ UNCHANGED <<regVars, envVars, histVars, message, idx, messageContent, toolResults,
                 newHdr, response, queries, invoked, histAtStart, alone, err,
                 asked, disp, roundStart>>

\* Mutant of goAppend: the session's Turns replace the history (an assignment
\* of *messages in place of the append).
goAppend_assign(h, arrays, newArr, elems) ==
  [heap |-> [arrays EXCEPT ![newArr] = elems],
   hdr |-> [arr |-> newArr, len |-> Len(elems), cap |-> Len(elems)]]

\* Go's append(modelMessages, elems...) up to the value it returns: h is the
\* header it loaded. With room the elements are written behind len in the
\* array the header points to; without room a new array (id newArr) receives
\* the old elements and the new ones.
goAppend(h, arrays, newArr, elems) ==
  LET n == h.len + Len(elems)
  IN IF n <= h.cap
       THEN [heap |-> [arrays EXCEPT ![h.arr] =
                         [i \in 1..h.cap |->
                            IF i > h.len /\ i <= n THEN elems[i - h.len] ELSE @[i]]],
             hdr |-> [arr |-> h.arr, len |-> n, cap |-> h.cap]]
       ELSE [heap |-> [arrays EXCEPT ![newArr] = SubSeq(arrays[h.arr], 1, h.len) \o elems],
             hdr |-> [arr |-> newArr, len |-> n, cap |-> n]]

\* root.go:261, first half: append reads the header of modelMessages and
\* copies. No lock is held: other sessions run between this and the store.
\* The header read and the copy are taken as one step (a coarser grain than
\* the word-by-word accesses of the build, so the outcomes reached here are a
\* subset of those a racing build can produce).
MergeAppend(s) ==
  /\ pc[s] = "merge"
  /\ LET r == goAppend(hdr, heap, s, messages[s])
     IN /\ heap' = r.heap
        /\ newHdr' = [newHdr EXCEPT ![s] = r.hdr]
  /\ pc' = [pc EXCEPT ![s] = "store"]
  /\ UNCHANGED <<regVars, envVars, hdr, curPrompt, messages, message, idx, messageContent,
                 toolResults, response, queries, invoked, histAtStart, alone,
                 err, asked, disp, roundStart>>

\* root.go:261-262 and part_000:67-75: the header append returned is stored in
\* modelMessages, runPrompt returns nil and the handler answers 200 with messages.
MergeStore(s) ==
  /\ pc[s] = "store"
  /\ hdr' = newHdr[s]
  /\ response' = [response EXCEPT ![s] = [status |-> 200, body |-> messages[s]]]
  /\ pc' = [pc EXCEPT ![s] = "responded"]
  /\ UNCHANGED <<regVars, envVars, heap, curPrompt, messages, message, idx, messageContent,
                 toolResults, newHdr, queries, invoked, histAtStart, alone, err,
                 asked, disp, roundStart>>

\* part_000:62-65: runPrompt returned an error; the handler answers 500.
RespondError(s) ==
  /\ pc[s] = "failed"
  /\ response' = [response EXCEPT ![s] = [status |-> 500, body |-> <<>>]]
  /\ pc' = [pc EXCEPT ![s] = "responded"]
  /\ UNCHANGED <<regVars, envVars, histVars, curPrompt, messages, message, idx,
                 messageContent, toolResults, newHdr, queries, invoked,
                 histAtStart, alone, err, asked, disp, roundStart>>

\* Turns of an earlier resolution, already in modelMessages when the requests
\* of this model arrive.
PriorHistory ==
  <<userPromptTurn(<<"p", "0">>), Turn(GetRole, <<Block("text", <<"h", "i">>, 0, 0, <<>>, <<>>)>>)>>

\* The server is listening. Either runMCPHost registered server "a" with tool
\* "t", or createProvider failed and runMCPHost returned before registering
\* anything. modelMessages is nil, or holds PriorHistory in an array with no
\* room or with MaxSpare free slots.
Init ==
  /\ spc = "serving"
  /\ todo = {}
  /\ clients = {}
  /\ createErr = "nil"
  /\ \/ /\ modelProvider = "set"
        /\ config = {<<"a">>}
        /\ conn = [n \in ServerIds |-> IF n = <<"a">> THEN "live" ELSE "none"]
        /\ modelMcpClients = {<<"a">>}
        /\ modelTools = mcpToolsToAnthropicTools(<<"a">>, <<<<"t">>>>)
        /\ toolOrigin = <<<<<<"a">>, <<"t">>>>>>
        /\ listResult = [n \in ServerIds |->
                           IF n = <<"a">> THEN [status |-> "ok", tools |-> <<<<"t">>>>]
                           ELSE NoListing]
     \/ /\ modelProvider = "nil"
        /\ config = {<<"a">>}
        /\ conn = [n \in ServerIds |-> "none"]
        /\ modelMcpClients = {}
        /\ modelTools = <<>>
        /\ toolOrigin = <<>>
        /\ listResult = [n \in ServerIds |-> NoListing]
  /\ EnvInit
  /\ \/ HistInitNil
     \/ \E spare \in {0, MaxSpare} :
          /\ heap = [a \in {0} \cup Sessions |->
                       IF a = 0 THEN PriorHistory \o [i \in 1..spare |-> NoTurn] ELSE <<>>]
          /\ hdr = [arr |-> 0, len |-> Len(PriorHistory), cap |-> Len(PriorHistory) + spare]
  /\ SessInit

Next ==
  \/ \E s \in Sessions : PromptRejected(s)
  \/ \E s \in Sessions : promptHandler(s)
  \/ \E s \in Sessions : runPromptNoProvider(s)
  \/ \E s \in Sessions : runPromptModelError(s)
  \/ \E s \in Sessions : runPromptQuery(s)
  \/ \E s \in Sessions : DispatchCall(s)
  \/ \E s \in Sessions : FinishRound(s)
  \/ \E s \in Sessions : MergeAppend(s)
  \/ \E s \in Sessions : MergeStore(s)
  \/ \E s \in Sessions : RespondError(s)

Spec == Init /\ [][Next]_vars

\* The steps of the goroutine serving request s once runPrompt was called.
Resolve(s) ==
  \/ runPromptNoProvider(s)
  \/ runPromptModelError(s)
  \/ runPromptQuery(s)
  \/ DispatchCall(s)
  \/ FinishRound(s)
  \/ MergeAppend(s)
  \/ MergeStore(s)
  \/ RespondError(s)

\* The prompt resolution under the assumption that every provider query and
\* every tool invocation returns and that the Go scheduler runs each request's
\* goroutine: no resolution stays for ever at a step it can take. Nothing is
\* assumed about the arrival of requests.
SpecLive == Init /\ [][Next]_vars /\ \A s \in Sessions : WF_vars(Resolve(s))

\* ------------------------------------------------------------------ /history

\* The slice expression s[low:] of Go: low outside 0..len(s) is a run-time
\* panic (slice bounds out of range), otherwise the elements after the first low.
sliceFrom(sl, low) ==
  IF low < 0 \/ low > Len(sl) THEN [panic |-> TRUE, value |-> <<>>]
  ELSE [panic |-> FALSE, value |-> SubSeq(sl, low + 1, Len(sl))]

\* historyHandler, part_000:93-97: the turns the handler returns.
returnMessages ==
  IF Len(modelMessages) > messageWindow
    THEN sliceFrom(modelMessages, Len(modelMessages) - messageWindow)
    ELSE [panic |-> FALSE, value |-> modelMessages]

\* historyHandler, part_000:90-108. A panic is recovered by net/http, which
\* drops the connection without a response; the server keeps serving.
historyHandler ==
  /\ spc = "serving"
  /\ histResponse' = IF returnMessages.panic
                        THEN [status |-> 0, body |-> <<>>, panic |-> TRUE]
                        ELSE [status |-> 200, body |-> returnMessages.value, panic |-> FALSE]
  /\ UNCHANGED <<regVars, histVars, sessVars, messageWindow>>

\* What one finished resolution merges into the history: a prompt answered with
\* text, and a prompt answered after one tool call.
MergedRuns ==
  LET toolCall == [ID |-> ToolCallID(1, 1), Name |-> <<"a", "_", "_", "t">>]
  IN {PriorHistory,
      <<userPromptTurn(<<"p", "1">>),
        Turn(GetRole, <<toolUseBlock(toolCall)>>),
        Turn("user", <<resultBlock(toolCall, <<[hasText |-> TRUE, text |-> <<"x">>]>>)>>),
        Turn(GetRole, <<Block("text", <<"o", "k">>, 0, 0, <<>>, <<>>)>>)>>}

RECURSIVE Flatten(_)
Flatten(ss) == IF ss = <<>> THEN <<>> ELSE Head(ss) \o Flatten(Tail(ss))

\* Init of the /history specification: a serving process whose environment set
\* MCP_MESSAGE_WINDOW to any of EnvValues and whose history holds the turns of
\* up to MaxRuns finished resolutions.
InitHist ==
  /\ spc = "serving"
  /\ todo = {}
  /\ clients = {}
  /\ createErr = "nil"
  /\ modelProvider = "set"
  /\ config = {}
  /\ conn = [n \in ServerIds |-> "none"]
  /\ modelMcpClients = {}
  /\ modelTools = <<>>
  /\ toolOrigin = <<>>
  /\ listResult = [n \in ServerIds |-> NoListing]
  /\ \E value \in EnvValues : messageWindow = LoadServerEnv(value)
  /\ histResponse = NoHistResponse
  /\ \E runs \in SeqsUpTo(MergedRuns, MaxRuns) :
       /\ heap = [a \in {0} \cup Sessions |-> IF a = 0 THEN Flatten(runs) ELSE <<>>]
       /\ hdr = [arr |-> 0, len |-> Len(Flatten(runs)), cap |-> Len(Flatten(runs))]
  /\ SessInit

NextHist == historyHandler

SpecHist == InitHist /\ [][NextHist]_vars

\* ------------------------------------------------------------------ startup claims

\* C5: every catalog name built for a registered server s and its local tool t
\* is dispatched to the connection registered under s with local name t.
C5_RoundTrip ==
  \A i \in 1..Len(modelTools) :
    toolOrigin[i][1] \in modelMcpClients =>
      LET d == Dispatch(modelTools[i])
      IN d.routed /\ d.serverName = toolOrigin[i][1] /\ d.toolName = toolOrigin[i][2]

\* C6: catalog entries built for distinct (server id, local name) pairs carry
\* distinct namespaced names.
C6_NamesDistinct ==
  \A i, j \in 1..Len(modelTools) :
    toolOrigin[i] # toolOrigin[j] => modelTools[i] # modelTools[j]

\* C7: once createMCPClients has returned an error, no connection is live and
\* the registry holds no connection.
C7_AllOrNothing ==
  (spc \in {"list", "serving"} /\ createErr # "nil") =>
    /\ \A n \in ServerIds : conn[n] # "live"
    /\ modelMcpClients = {}

\* C7 witness: the handshake of a later server failed after an earlier server
\* had registered; both processes were started and are closed.
C7_Witness ==
  /\ spc = "serving"
  /\ createErr = "init"
  /\ Cardinality({n \in ServerIds : conn[n] = "closed"}) >= 2

\* The catalog entries built for server n, in catalog order, from position i on.
RECURSIVE catalogOf(_, _)
catalogOf(n, i) ==
  IF i > Len(modelTools) THEN <<>>
  ELSE (IF toolOrigin[i][1] = n THEN <<modelTools[i]>> ELSE <<>>) \o catalogOf(n, i + 1)

\* C16: tool listing is isolated per server: when the listing of one registered
\* server fails, every other registered server is still listed, the catalog
\* holds exactly the namespaced tools of the servers whose listing succeeded,
\* and no connection, the failing one included, is closed or removed.
C16_ListingIsolated ==
  /\ [](spc = "serving" /\ modelProvider = "set" /\ createErr = "nil" =>
          /\ modelMcpClients = config
          /\ \A n \in config :
               /\ listResult[n].status \in {"ok", "failed"}
               /\ conn[n] = "live"
               /\ catalogOf(n, 1) =
                    [i \in 1..Len(listResult[n].tools) |->
                       namespacedName(n, listResult[n].tools[i])]
          /\ \A i \in 1..Len(modelTools) :
               /\ toolOrigin[i][1] \in config
               /\ listResult[toolOrigin[i][1]].status = "ok")
  /\ [][\A n \in ServerIds :
          (listResult'[n].status = "failed" /\ listResult[n].status # "failed") =>
            /\ conn' = conn
            /\ modelMcpClients' = modelMcpClients
            /\ modelTools' = modelTools]_vars

\* Startup finished with two registered servers: the listing of one failed,
\* the other's tools are in the catalog, both connections are live.
C16_Witness ==
  /\ spc = "serving"
  /\ \E n, k \in modelMcpClients :
       /\ listResult[n].status = "failed"
       /\ listResult[k].status = "ok"
       /\ Len(listResult[k].tools) >= 1
       /\ conn[n] = "live"
       /\ modelTools # <<>>

\* ------------------------------------------------------------------ prompt resolution claims

\* The latest round of session s has appended its Turns to *messages.
RoundDone(s) ==
  \/ pc[s] \in {"merge", "store"}
  \/ pc[s] = "run" /\ queries[s] >= 1
  \/ pc[s] = "responded" /\ response[s].status = 200

\* The Turns the latest round appended.
added(s) == SubSeq(messages[s], roundStart[s] + 1, Len(messages[s]))

\* Number of positions of sequence q whose element is in set S.
CountIn(q, S) == Cardinality({i \in 1..Len(q) : q[i] \in S})

\* Number of blocks of the given type in a content sequence.
CountType(content, type) == Cardinality({i \in 1..Len(content) : content[i].Type = type})

\* j of the claims: calls of the latest round with a well-formed name and a
\* known server whose invocation returned without error.
succeeded(s) == CountIn(disp[s], {"nil", "content"})

\* C1: a round with j successfully invoked calls appends one assistant Turn,
\* then one user Turn with exactly j tool_result blocks if j > 0, and no user
\* Turn if j = 0.
C1_RoundTurns ==
  \A s \in Sessions :
    RoundDone(s) =>
      /\ Len(added(s)) = (IF succeeded(s) > 0 THEN 2 ELSE 1)
      /\ added(s)[1].Role = "assistant"
      /\ succeeded(s) > 0 =>
           /\ added(s)[2].Role = "user"
           /\ Len(added(s)[2].Content) = succeeded(s)
           /\ CountType(added(s)[2].Content, "tool_result") = succeeded(s)

\* C2: a round in which a tool invocation returned an error goes on to another
\* model query, with the error's tool_result block in the conversation.
C2_ErrorFedBack ==
  \A s \in Sessions :
    (RoundDone(s) /\ CountIn(disp[s], {"err"}) > 0) =>
      /\ pc[s] = "run"
      /\ \E i \in 1..Len(added(s)) : CountType(added(s)[i].Content, "tool_result") > 0

\* The tool_use blocks of the calls of m that were dispatched, in model order;
\* dsp[i] tells what became of call i.
RECURSIVE dispatchedUses(_, _)
dispatchedUses(calls, dsp) ==
  IF calls = <<>> THEN <<>>
  ELSE (IF Head(dsp) \in {"err", "nil", "content"} THEN <<toolUseBlock(Head(calls))>> ELSE <<>>)
         \o dispatchedUses(Tail(calls), Tail(dsp))

\* C3: the assistant Turn of a round is the text block (if the text is not
\* empty) followed by one tool_use block per dispatched call, in model order;
\* a skipped call has no block in any Turn.
C3_AssistantContent ==
  \A s \in Sessions :
    RoundDone(s) =>
      added(s)[1].Content =
        initialContent(message[s]) \o dispatchedUses(message[s].ToolCalls, disp[s])

\* Histories the server may hold before the requests of this model.
InitialHistories == {<<>>, PriorHistory}

\* The Turns of session s if it was answered 200, else none.
merged(s) == IF response[s].status = 200 THEN messages[s] ELSE <<>>

\* C4: once every request is answered, modelMessages is the earlier history
\* followed by the Turns of each completed session as one block, in some order.
C4_MergeExclusive ==
  (\A s \in Sessions : pc[s] = "responded") =>
    \E h \in InitialHistories :
      \/ modelMessages = h \o merged(1) \o merged(2)
      \/ modelMessages = h \o merged(2) \o merged(1)

\* C8: after the Model Backend returned an error the resolution fails, the
\* caller gets a 500, and no model query or tool invocation follows.
C8_ModelErrorFatal ==
  /\ [](\A s \in Sessions :
          err[s] = "model" =>
            /\ pc[s] \in {"failed", "responded"}
            /\ pc[s] = "responded" => response[s].status = 500)
  /\ [][\A s \in Sessions :
          err[s] = "model" => queries'[s] = queries[s] /\ invoked'[s] = invoked[s]]_vars

\* C8 witness: the error came in a later round, after a tool was invoked.
C8_Witness ==
  \E s \in Sessions :
    /\ err[s] = "model"
    /\ queries[s] >= 2
    /\ Len(invoked[s]) >= 1
    /\ response[s].status = 500

\* C9: the merge of a resolution that ran with no other request in flight
\* leaves modelMessages equal to its value when the request arrived followed by
\* the session's Turns, which are the response body, start with the user Turn
\* of the prompt and end with an assistant Turn.
C9_MergeAdditive ==
  [][\A s \in Sessions :
       (pc[s] = "store" /\ pc'[s] = "responded" /\ alone[s]) =>
         /\ modelMessages' = histAtStart[s] \o messages[s]
         /\ response'[s] = [status |-> 200, body |-> messages[s]]
         /\ messages[s][1] = userPromptTurn(PromptOf(s))
         /\ messages[s][Len(messages[s])].Role = "assistant"
         /\ CountIn(messages[s], {userPromptTurn(PromptOf(s))}) = 1]_vars

\* C9 witness: a resolution of two rounds, alone, merged behind a non-empty history.
C9_Witness ==
  \E s \in Sessions :
    /\ pc[s] = "responded"
    /\ response[s].status = 200
    /\ alone[s]
    /\ queries[s] >= 2
    /\ Len(histAtStart[s]) > 0
    /\ modelMessages = histAtStart[s] \o messages[s]

\* C10: a model message without tool calls ends the resolution: its round
\* appends one assistant Turn and no user Turn, and no model query follows.
C10_NoToolsOneRound ==
  /\ [](\A s \in Sessions :
          (RoundDone(s) /\ message[s].ToolCalls = <<>>) =>
            /\ pc[s] # "run"
            /\ Len(added(s)) = 1
            /\ added(s)[1].Role = "assistant")
  /\ [][\A s \in Sessions :
          (RoundDone(s) /\ message[s].ToolCalls = <<>>) => queries'[s] = queries[s]]_vars

\* C10 witness: a request answered after a single model message without tool calls.
C10_Witness ==
  \E s \in Sessions :
    /\ pc[s] = "responded"
    /\ response[s].status = 200
    /\ queries[s] = 1
    /\ message[s].ToolCalls = <<>>
    /\ Len(messages[s]) = 2



\* ------------------------------------------------------------------ round claims

\* The ToolUseIDs, in order, of the tool_result blocks of a content sequence.
RECURSIVE resultIds(_)
resultIds(content) ==
  IF content = <<>> THEN <<>>
  ELSE (IF Head(content).Type = "tool_result" THEN <<Head(content).ToolUseID>> ELSE <<>>)
         \o resultIds(Tail(content))

\* The IDs, in order, of the tool_use blocks of a content sequence.
RECURSIVE useIds(_)
useIds(content) ==
  IF content = <<>> THEN <<>>
  ELSE (IF Head(content).Type = "tool_use" THEN <<Head(content).ID>> ELSE <<>>)
         \o useIds(Tail(content))

\* C11: a round that appends a tool-output user Turn is followed by a model
\* query made with the empty prompt, which appends no user text Turn and sees
\* a conversation ending in that tool-output Turn; and a prompt whose first
\* model turn makes one successful tool call and whose second model turn is
\* text only yields exactly the four Turns user(prompt), assistant(tool_use),
\* user(tool_result), assistant(text).
C11_LoopBack ==
  [][\A s \in Sessions :
       /\ (pc[s] = "dispatch" /\ pc'[s] = "run") =>
            /\ curPrompt'[s] = <<>>
            /\ messages'[s][Len(messages'[s])] = Turn("user", toolResults[s])
            /\ toolResults[s] # <<>>
       /\ (pc[s] = "run" /\ queries[s] >= 1 /\ pc'[s] # "run") =>
            /\ messages'[s] = messages[s]
            /\ \/ pc'[s] = "dispatch" /\ queries'[s] = queries[s] + 1
               \/ pc'[s] = "failed" /\ err'[s] = "model"
       /\ (/\ pc'[s] = "responded" /\ response'[s].status = 200
           /\ queries[s] = 2 /\ asked[s] = 1 /\ Len(invoked[s]) = 1
           /\ message[s].ToolCalls = <<>> /\ message[s].Content # <<>>) =>
            LET ms == messages[s]
            IN /\ Len(ms) = 4
               /\ ms[1] = userPromptTurn(PromptOf(s))
               /\ ms[2].Role = "assistant"
               /\ useIds(ms[2].Content) = <<invoked[s][1].ID>>
               /\ resultIds(ms[2].Content) = <<>>
               /\ ms[3].Role = "user"
               /\ Len(ms[3].Content) = 1
               /\ resultIds(ms[3].Content) = <<invoked[s][1].ID>>
               /\ ms[4] = Turn("assistant", <<Block("text", message[s].Content, 0, 0, <<>>, <<>>)>>)
               /\ response'[s].body = ms]_vars

\* A prompt was answered after one tool call and a closing text turn.
C11_Witness ==
  \E s \in Sessions :
    /\ pc[s] = "responded" /\ response[s].status = 200
    /\ queries[s] = 2 /\ Len(invoked[s]) = 1 /\ asked[s] = 1
    /\ Len(messages[s]) = 4
    /\ message[s].ToolCalls = <<>>

\* The code's reason to skip a call, read off the name: it does not split into
\* exactly two parts, or its first part is no key of the registry.
unroutable(name) ==
  \/ Len(Split(name)) # 2
  \/ Split(name)[1] \notin modelMcpClients

\* All blocks a session holds: in its Turns, and in the two lists of the round
\* under way.
allBlocks(s) ==
  Flatten([i \in 1..Len(messages[s]) |-> messages[s][i].Content])
    \o messageContent[s] \o toolResults[s]

\* C12: a tool call whose name does not split into exactly two parts, or whose
\* server is not registered, is never forwarded to a connection and gets no
\* tool_result block; and when the round has no other tool call, the resolution
\* ends with that round's assistant Turn, without another model query.
C12_SkippedCall ==
  [][\A s \in Sessions :
       LET calls == message'[s].ToolCalls
           handled == 1..idx'[s]
       IN /\ \A i \in handled :
               unroutable(calls[i].Name) =>
                 /\ \A k \in 1..Len(invoked'[s]) : invoked'[s][k].ID # calls[i].ID
                 /\ \A k \in 1..Len(allBlocks(s)') :
                      allBlocks(s)'[k].Type = "tool_result" =>
                        allBlocks(s)'[k].ToolUseID # calls[i].ID
          /\ (/\ pc[s] = "dispatch" /\ pc'[s] # "dispatch"
              /\ message[s].ToolCalls # <<>>
              /\ \A i \in 1..Len(message[s].ToolCalls) :
                   unroutable(message[s].ToolCalls[i].Name)) =>
               /\ pc'[s] = "merge"
               /\ messages'[s] = Append(messages[s], Turn("assistant", messageContent[s]))
          /\ (pc[s] \in {"merge", "store"}) => queries'[s] = queries[s]]_vars

\* A resolution ended after a round whose only tool call named a server that
\* is not registered.
C12_Witness ==
  \E s \in Sessions :
    /\ pc[s] = "responded" /\ response[s].status = 200
    /\ queries[s] = 1
    /\ Len(message[s].ToolCalls) = 1
    /\ message[s].ToolCalls[1].Name = <<"g", "_", "_", "t">>
    /\ invoked[s] = <<>>
    /\ Len(messages[s]) = 2

\* A sequence of numbers that grows strictly from left to right.
Increasing(q) == \A i, j \in 1..Len(q) : i < j => q[i] < q[j]

\* C14: within a round the tool calls are invoked one at a time in the model's
\* order, call i+1 only after call i has returned or was skipped, and the
\* tool_use and tool_result blocks of the round stand in that same order.
\* (ToolCallID grows with the position of the call in the model's list.)
C14_InOrder ==
  [][\A s \in Sessions :
       LET calls == message[s].ToolCalls
       IN /\ Len(invoked'[s]) <= Len(invoked[s]) + 1
          /\ Len(invoked'[s]) = Len(invoked[s]) + 1 =>
               /\ pc[s] = "dispatch"
               /\ idx'[s] = idx[s] + 1
               /\ Len(disp[s]) = idx[s]
               /\ invoked'[s][Len(invoked'[s])].ID = calls[idx[s] + 1].ID
          /\ pc[s] = "dispatch" /\ idx'[s] # idx[s] =>
               /\ idx'[s] = idx[s] + 1
               /\ LET new == SubSeq(messageContent'[s], Len(messageContent[s]) + 1,
                                     Len(messageContent'[s]))
                         \o SubSeq(toolResults'[s], Len(toolResults[s]) + 1,
                                    Len(toolResults'[s]))
                  IN \A k \in 1..Len(new) :
                       \/ new[k].Type = "tool_use" /\ new[k].ID = calls[idx'[s]].ID
                       \/ new[k].Type = "tool_result" /\ new[k].ToolUseID = calls[idx'[s]].ID
          /\ Increasing([k \in 1..Len(invoked'[s]) |-> invoked'[s][k].ID])
          /\ Increasing(useIds(messageContent'[s]))
          /\ Increasing(resultIds(messageContent'[s]))
          /\ Increasing(resultIds(toolResults'[s]))]_vars

\* A round invoked two tools and both returned content.
C14_Witness ==
  \E s \in Sessions :
    /\ pc[s] = "dispatch"
    /\ idx[s] = 2
    /\ Len(toolResults[s]) = 2
    /\ Len(invoked[s]) = 2

\* The model has asked for tools in each of MaxRounds rounds and got results:
\* the resolution is cut off here by the bound on rounds, not by the code.
CutOff(s) == pc[s] = "run" /\ queries[s] = MaxRounds

\* C15: if every model query and tool invocation returns, a resolution whose
\* model returns a turn with no tool calls reaches DONE and is answered: after
\* such a turn it makes no further query and its only way on is the merge and
\* the 200 answer; and every resolution is answered (DONE, or FAILED on a
\* provider error) unless the model is still asking for tools when the bound
\* on rounds is reached.
C15_Terminates ==
  /\ [][\A s \in Sessions :
          (message[s].ToolCalls = <<>> /\ pc[s] \in {"dispatch", "merge", "store"}) =>
            \/ pc'[s] \in {"dispatch", "merge", "store"} /\ queries'[s] = queries[s]
            \/ pc'[s] = "responded" /\ response'[s].status = 200]_vars
  /\ \A s \in Sessions : InFlight(s) ~> (pc[s] = "responded" \/ CutOff(s))

\* A resolution was answered after as many rounds as the bound allows, the
\* last one without tool calls.
C15_Witness ==
  \E s \in Sessions :
    /\ pc[s] = "responded" /\ response[s].status = 200
    /\ queries[s] = MaxRounds
    /\ message[s].ToolCalls = <<>>

\* The text fields of the items that carry one, in order.
RECURSIVE textsOf(_)
textsOf(content) ==
  IF content = <<>> THEN <<>>
  ELSE (IF Head(content).hasText THEN <<Head(content).text>> ELSE <<>>)
         \o textsOf(Tail(content))

\* Texts joined by single spaces.
RECURSIVE joined(_)
joined(ts) ==
  IF ts = <<>> THEN <<>>
  ELSE IF Len(ts) = 1 THEN ts[1]
  ELSE ts[1] \o <<" ">> \o joined(Tail(ts))

\* C17: every call that returned without error has a tool_result block in the
\* round's tool results, whatever the shape of the result (a result with no
\* content included), and the block's text is the text fields of the items
\* that carry one, in order, joined by single spaces and trimmed.
C17_ResultText ==
  \A s \in Sessions :
    pc[s] = "dispatch" =>
      \A k \in 1..Len(invoked[s]) :
        LET call == invoked[s][k]
        IN (call.ID \in {message[s].ToolCalls[i].ID : i \in 1..idx[s]}
              /\ call.result.kind # "err") =>
             \E j \in 1..Len(toolResults[s]) :
               /\ toolResults[s][j].Type = "tool_result"
               /\ toolResults[s][j].ToolUseID = call.ID
               /\ toolResults[s][j].Text = TrimSpace(joined(textsOf(call.result.content)))

\* C18: a resolution that ends in failure leaves modelMessages as it was when
\* the request arrived, also when earlier rounds invoked tools and appended
\* Turns to the session's conversation; the history changes only in the store
\* that ends the merge of a resolution that did not fail.
C18_FailureKeepsHistory ==
  [][/\ \A s \in Sessions :
          (InFlight(s) /\ err'[s] # "nil" /\ alone'[s]) =>
            modelMessages' = histAtStart[s]
     /\ modelMessages' # modelMessages =>
          \E s \in Sessions :
            /\ pc[s] = "store" /\ pc'[s] = "responded"
            /\ err[s] = "nil"
            /\ response'[s].status = 200]_vars

\* A resolution failed in a later round: a tool was invoked, the conversation
\* holds the Turns of the earlier round, the history is the one it started from.
C18_Witness ==
  \E s \in Sessions :
    /\ pc[s] = "responded" /\ response[s].status = 500
    /\ err[s] = "model"
    /\ Len(invoked[s]) >= 1
    /\ Len(messages[s]) >= 3
    /\ alone[s]
    /\ histAtStart[s] # <<>>
    /\ modelMessages = histAtStart[s]

\* The elements of a sequence, as a set.
Range(q) == {q[i] : i \in 1..Len(q)}

\* C19: in a session's conversation every tool_result block stands in a user
\* Turn and carries the id of a tool_use block of the assistant Turn right
\* before it; and where a tool-output user Turn follows an assistant Turn (the
\* loop went on to another model query), every tool_use block of that
\* assistant Turn has a tool_result block with its id in the user Turn.
C19_Paired ==
  \A s \in Sessions :
    LET ms == messages[s]
    IN \A i \in 1..Len(ms) :
         /\ resultIds(ms[i].Content) # <<>> =>
              /\ ms[i].Role = "user"
              /\ i > 1
              /\ ms[i - 1].Role = "assistant"
              /\ Range(resultIds(ms[i].Content)) \subseteq Range(useIds(ms[i - 1].Content))
         /\ (i < Len(ms) /\ ms[i].Role = "assistant" /\ ms[i + 1].Role = "user") =>
              Range(useIds(ms[i].Content)) \subseteq Range(resultIds(ms[i + 1].Content))

\* ------------------------------------------------------------------ /history claims

Min(a, b) == IF a <= b THEN a ELSE b

\* C13: a /history request over a history of m turns and a window n answers
\* with exactly min(n, m) turns, the most recent ones in their order, for every
\* n that LoadServerEnv can produce; and it leaves the history as it was.
C13_Window ==
  LET m == Len(modelMessages)
      k == Min(messageWindow, m)
  IN histResponse # NoHistResponse =>
       /\ histResponse.status = 200
       /\ k >= 0
       /\ histResponse.body = SubSeq(modelMessages, m - k + 1, m)

====
